---- MODULE Spec2Model ----
(***************************************************************************)
(* Model of utils/property_extractor.py: the batch fetcher                 *)
(* (fetch_details_for_batch, generate_material_bank) and the property      *)
(* enricher (process_materials).                                           *)
(*                                                                         *)
(* Python dicts are modelled as sequences of <<key, value>> pairs, which   *)
(* keeps their insertion order.  Scalars held in table cells are strings;  *)
(* None and NaN are two reserved strings.                                  *)
(***************************************************************************)
EXTENDS Integers, Sequences, FiniteSets, TLC

VARIABLES
    pc,               \* position of the program
    args,             \* generate_material_bank's arguments
    i,                \* loop variable of the running loop (both loops call it i)
    mix_k,            \* columns created so far by the column-creating loops
    smiles_data,      \* generate_material_bank's accumulating dict
    fetch_log,        \* one entry per call of fetch_details_for_batch
    material_bank,    \* the DataFrame
    properties,       \* process_materials' requested property names
    valid_properties, \* process_materials' validated dict
    warned,           \* names passed to warnings.warn, in order
    accessed,         \* column labels process_materials read or wrote
    visited,          \* one entry per iteration of the row loop
    written           \* one entry per call of to_parquet

vars == <<pc, args, i, mix_k, smiles_data, fetch_log, material_bank, properties,
          valid_properties, warned, accessed, visited, written>>

fetchVars == <<args, smiles_data, fetch_log>>
enrichVars == <<properties, valid_properties, warned, accessed, visited, written>>

(***************************************************************************)
(* Bounds of the model.                                                    *)
(***************************************************************************)
MaxRange == 3      \* largest size of a small identifier range
MaxBatch == 2      \* largest batch_size of a small run
MaxItems == 2      \* most items in one chunk response
MaxRows == 2       \* most rows of a supplied table

None == "<None>"
NaN == "<NaN>"

Min(a, b) == IF a < b THEN a ELSE b

(***************************************************************************)
(* Python dict, list slice and range.                                      *)
(***************************************************************************)
Keys(d) == {d[k][1] : k \in DOMAIN d}

KeySeq(d) == [k \in DOMAIN d |-> d[k][1]]

DictGet(d, key) == (CHOOSE k \in DOMAIN d : d[k][1] = key)

\* d[key] = value: an existing key keeps its position, a new key goes last
DictSet(d, key, value) ==
    IF key \in Keys(d)
    THEN [k \in DOMAIN d |-> IF d[k][1] = key THEN <<key, value>> ELSE d[k]]
    ELSE Append(d, <<key, value>>)

RECURSIVE DictUpdateFrom(_, _, _)
DictUpdateFrom(d, b, k) ==
    IF k > Len(b) THEN d
    ELSE DictUpdateFrom(DictSet(d, b[k][1], b[k][2]), b, k + 1)

\* d.update(b)
DictUpdate(d, b) == DictUpdateFrom(d, b, 1)

\* list(range(start_cid, end_cid + 1))
CidListMutExclusive(start_cid, end_cid) ==
    [k \in 1..(IF end_cid > start_cid THEN end_cid - start_cid ELSE 0)
       |-> start_cid + k - 1]

CidList(start_cid, end_cid) ==
    [k \in 1..(IF end_cid + 1 > start_cid THEN end_cid + 1 - start_cid ELSE 0)
       |-> start_cid + k - 1]

\* cid_list[lo : lo + batch_size], lo a 0-based offset
BatchMutOverlap(cid_list, lo, batch_size) ==
    [k \in 1..Min(batch_size + 1, Len(cid_list) - lo) |-> cid_list[lo + k]]

Batch(cid_list, lo, batch_size) ==
    [k \in 1..Min(batch_size, Len(cid_list) - lo) |-> cid_list[lo + k]]

(***************************************************************************)
(* fetch_details_for_batch.  A response is                                 *)
(*   [status_code, json_ok, items]                                         *)
(* json_ok = FALSE: response.json() raises, or the body is no dict of the  *)
(* expected shape, so the chained .get raises before any item is seen.     *)
(* An item is [is_dict, has_cid, cid, smiles, name, formula]; is_dict =    *)
(* FALSE is an element without .get, on which prop.get raises.             *)
(***************************************************************************)
StatusCodes == {200, 404}

Formula == "CxHy"

NameOf(cid) == "compound-" \o ToString(cid)

\* if cid and smiles:
AcceptedMutCidOnly(item) == item.has_cid /\ item.cid # 0

Accepted(item) ==
    /\ item.has_cid /\ item.cid # 0
    /\ item.smiles # None /\ item.smiles # ""

\* the for loop over properties inside the try; an exception ends the loop
\* and leaves batch_data as it stands
RECURSIVE ParseItems(_, _, _)
ParseItems(items, k, batch_data) ==
    IF k > Len(items) THEN [batch_data |-> batch_data, raised |-> FALSE]
    ELSE IF ~items[k].is_dict THEN [batch_data |-> batch_data, raised |-> TRUE]
    ELSE ParseItems(items, k + 1,
            IF Accepted(items[k])
            THEN DictSet(batch_data, items[k].cid,
                         [smiles |-> items[k].smiles, name |-> items[k].name,
                          formula |-> items[k].formula])
            ELSE batch_data)

FetchDetailsMutIgnoreStatus(cids, response) ==
    IF ~response.json_ok THEN [batch_data |-> <<>>, raised |-> TRUE]
    ELSE ParseItems(response.items, 1, <<>>)

FetchDetailsForBatch(cids, response) ==
    IF response.status_code = 200
    THEN IF ~response.json_ok THEN [batch_data |-> <<>>, raised |-> TRUE]
         ELSE ParseItems(response.items, 1, <<>>)
    ELSE [batch_data |-> <<>>, raised |-> FALSE]

\* the identifiers a response may mention: the first and the last of the
\* requested chunk
ItemCids(cids) == {cids[1], cids[Len(cids)]}

NotADict == [is_dict |-> FALSE, has_cid |-> FALSE, cid |-> 0, smiles |-> None,
             name |-> None, formula |-> None]

Item(cid, smiles) == [is_dict |-> TRUE, has_cid |-> TRUE, cid |-> cid,
                      smiles |-> smiles, name |-> NameOf(cid), formula |-> Formula]

\* an item without a 'CID' key
ItemNoCid == [is_dict |-> TRUE, has_cid |-> FALSE, cid |-> 0, smiles |-> "C",
              name |-> None, formula |-> Formula]

Items(cids) ==
    {NotADict, ItemNoCid}
    \cup {Item(c, "C") : c \in ItemCids(cids)}
    \cup {Item(cids[1], s) : s \in {None, ""}}

ItemSeqs(cids) ==
    UNION {[1..n -> Items(cids)] : n \in 0..MaxItems}

\* the bodies of the responses: any body with the success status, three
\* bodies with a failure status
Responses(cids) ==
    {[status_code |-> st, json_ok |-> FALSE, items |-> <<>>] : st \in StatusCodes}
    \cup
    {[status_code |-> 200, json_ok |-> TRUE, items |-> its] : its \in ItemSeqs(cids)}
    \cup
    {[status_code |-> st, json_ok |-> TRUE, items |-> its] :
        st \in StatusCodes \ {200}, its \in {<<>>, <<Item(cids[1], "C")>>}}

HasFalsySmiles(response) ==
    \E k \in DOMAIN response.items :
        response.items[k].is_dict /\ response.items[k].smiles \in {None, ""}

(***************************************************************************)
(* generate_material_bank                                                  *)
(***************************************************************************)
cid_list == CidList(args.start_cid, args.end_cid)

EmptyFrame == [index |-> <<>>, index_name |-> None, columns |-> <<>>,
               data |-> <<>>]

\* pd.DataFrame.from_dict(smiles_data, orient='index'); index.name = 'CID'
FromDict(sd) ==
    LET cols == IF sd = <<>> THEN <<>> ELSE <<"smiles", "name", "formula">>
    IN  [index |-> KeySeq(sd),
         index_name |-> "CID",
         columns |-> cols,
         data |-> [c \in {cols[k] : k \in DOMAIN cols} |->
                     [lab \in Keys(sd) |-> sd[DictGet(sd, lab)][2][c]]]]

\* one iteration of the for loop over range(0, len(cid_list), batch_size)
FetchBatch ==
    /\ pc = "fetch_loop"
    /\ i < Len(cid_list)
    /\ LET batch == Batch(cid_list, i, args.batch_size)
       IN  \E response \in Responses(batch) :
             LET r == FetchDetailsForBatch(batch, response)
             IN  /\ smiles_data' = DictUpdate(smiles_data, r.batch_data)
                 /\ fetch_log' = Append(fetch_log,
                        [batch |-> batch,
                         status_code |-> response.status_code,
                         raised |-> response.status_code = 200 /\ r.raised,
                         falsy_smiles |-> HasFalsySmiles(response),
                         batch_data |-> r.batch_data])
    /\ i' = i + args.batch_size
    /\ UNCHANGED <<pc, args, mix_k, material_bank>>
    /\ UNCHANGED enrichVars

\* the loop is exhausted: build the DataFrame and return it (the function's
\* own i goes out of scope)
BuildTable ==
    /\ pc = "fetch_loop"
    /\ i >= Len(cid_list)
    /\ material_bank' = FromDict(smiles_data)
    /\ pc' = "bank_ready"
    /\ i' = 0
    /\ UNCHANGED mix_k
    /\ UNCHANGED fetchVars
    /\ UNCHANGED enrichVars

SmallArgs ==
    {[start_cid |-> s, end_cid |-> s + n - 1, batch_size |-> b] :
        s \in 0..1, n \in 1..MaxRange, b \in 1..MaxBatch}

\* the run of the specification's example: identifiers 1..250 in batches of 100
ExampleArgs == [start_cid |-> 1, end_cid |-> 250, batch_size |-> 100]

NoEnrich ==
    /\ properties = <<>>
    /\ valid_properties = <<>>
    /\ warned = <<>>
    /\ accessed = {}
    /\ visited = <<>>
    /\ written = <<>>

InitFetch ==
    /\ pc = "fetch_loop"
    /\ args \in SmallArgs \cup {ExampleArgs}
    /\ i = 0
    /\ mix_k = 0
    /\ smiles_data = <<>>
    /\ fetch_log = <<>>
    /\ material_bank = EmptyFrame
    /\ NoEnrich

NextFetch == FetchBatch \/ BuildTable

SpecFetch == InitFetch /\ [][NextFetch]_vars

(***************************************************************************)
(* The fixed catalogs of process_materials.                                *)
(***************************************************************************)
supported_properties ==
    ("boiling point" :> "Tb") @@ ("melting point" :> "Tm") @@
    ("viscosity" :> "mu") @@ ("density" :> "rho") @@
    ("thermal conductivity" :> "k") @@ ("vapour pressure" :> "Psat") @@
    ("permittivity" :> "permittivity") @@ ("flash point" :> "Tflash") @@
    ("auto ignition temperature" :> "Tautoignition") @@
    ("heat of combustion" :> "Hc") @@ ("enthalpy of formation" :> "Hf") @@
    ("critical temperature" :> "Tc") @@ ("critical pressure" :> "Pc") @@
    ("critical volume" :> "Vc") @@ ("triple point temperature" :> "Tt") @@
    ("triple point pressure" :> "Pt") @@ ("surface tension" :> "sigma") @@
    ("molecular weight" :> "MW") @@ ("Henry's law constant" :> "Henry") @@
    ("dipole moment" :> "dipole")

solvents == <<"water", "hexane", "ethanol", "acetonitrile">>

\* 0.25, 0.5, 0.75 as str() formats them in the column names
fractions == <<"0.25", "0.5", "0.75">>

\* 1 - fraction
OneMinus(fraction) ==
    CASE fraction = "0.25" -> "0.75"
      [] fraction = "0.5" -> "0.5"
      [] fraction = "0.75" -> "0.25"

\* f'{solvent}_fraction_{fraction}_enthalpy_mixing'
ColumnName(solvent, fraction) ==
    solvent \o "_fraction_" \o fraction \o "_enthalpy_mixing"

\* the (solvent, fraction) pairs in the order of the nested loops
MixPairs ==
    [k \in 1..(Len(solvents) * Len(fractions)) |->
        <<solvents[((k - 1) \div Len(fractions)) + 1],
          fractions[((k - 1) % Len(fractions)) + 1]>>]

MixColumnNames == {ColumnName(MixPairs[k][1], MixPairs[k][2]) : k \in DOMAIN MixPairs}

\* f'{run_name}.parquet'
OutputFile(run_name) == run_name \o ".parquet"

(***************************************************************************)
(* pandas DataFrame: index (row labels, in order), columns (in order) and  *)
(* data[column][label].                                                    *)
(***************************************************************************)
Labels(mb) == {mb.index[k] : k \in DOMAIN mb.index}

Columns(mb) == {mb.columns[k] : k \in DOMAIN mb.columns}

\* material_bank.shape[0]
NRows(mb) == Len(mb.index)

\* material_bank.loc[label, col] finds a cell; otherwise it raises KeyError
HasCell(mb, label, col) == label \in Labels(mb) /\ col \in Columns(mb)

\* material_bank[col] = value
AssignColumn(mb, col, value) ==
    [mb EXCEPT
        !.columns = IF col \in Columns(mb) THEN @ ELSE Append(@, col),
        !.data = [c \in Columns(mb) \cup {col} |->
                    IF c = col THEN [lab \in Labels(mb) |-> value] ELSE mb.data[c]]]

\* material_bank.loc[label, col] = value, label an existing row: a new column
\* is created with NaN in the other rows
SetLoc(mb, label, col, value) ==
    [mb EXCEPT
        !.columns = IF col \in Columns(mb) THEN @ ELSE Append(@, col),
        !.data = [c \in Columns(mb) \cup {col} |->
                    IF c # col THEN mb.data[c]
                    ELSE [lab \in Labels(mb) |->
                            IF lab = label THEN value
                            ELSE IF col \in Columns(mb) THEN mb.data[col][lab]
                            ELSE NaN]]]

(***************************************************************************)
(* The external chemistry library.  Each call either returns or raises;    *)
(* which is the library's choice, drawn per row by ProcessRow:             *)
(*   chem   "ok" or "raise"                        Chemical(name)          *)
(*   reads  one of GetattrOutcomes per property    getattr(chemical, attr) *)
(*   fails  the set of MixPairs positions whose Mixture(...).Hm raises     *)
(***************************************************************************)
GetattrOutcomes == {"value", "AttributeError", "OtherError"}

MixFailures == {{}, DOMAIN MixPairs, {1}, {Len(MixPairs)}}

\* the value of getattr(Chemical(name), attr)
AttrValue(name, attr) == attr \o "(" \o name \o ")"

\* the value of Mixture([name, solvent], zs=[fraction, 1 - fraction]).Hm
MixValue(name, solvent, fraction) ==
    "Hm(" \o name \o "," \o solvent \o "," \o fraction \o "," \o OneMinus(fraction) \o ")"

\* except AttributeError:
InnerCatches(exc) == exc = "AttributeError"

\* except Exception: around the Mixture
MixCatches(exc) == TRUE

\* except Exception as e: around the row
OuterCatchesMutKeyError(exc) == exc = "KeyError"

OuterCatches(exc) == TRUE

\* for prop, attr in valid_properties.items(): from position k on.
\* events lists what each getattr did; exc is the exception that left the loop
RECURSIVE ReadProps(_, _, _, _, _, _, _)
ReadProps(mb, label, name, vp, reads, k, events) ==
    IF k > Len(vp) THEN [mb |-> mb, events |-> events, exc |-> "none"]
    ELSE LET prop == vp[k][1]
             attr == vp[k][2]
         IN  IF reads[k] = "value"
             THEN ReadProps(SetLoc(mb, label, prop, AttrValue(name, attr)),
                            label, name, vp, reads, k + 1, Append(events, "value"))
             ELSE IF InnerCatches(reads[k])
             THEN ReadProps(SetLoc(mb, label, prop, NaN),
                            label, name, vp, reads, k + 1, Append(events, reads[k]))
             ELSE [mb |-> mb, events |-> Append(events, reads[k]), exc |-> reads[k]]

\* the nested loops over solvents and fractions, from position k on
RECURSIVE MixRow(_, _, _, _, _)
MixRow(mb, label, name, fails, k) ==
    IF k > Len(MixPairs) THEN [mb |-> mb, exc |-> "none", done |-> k - 1]
    ELSE LET col == ColumnName(MixPairs[k][1], MixPairs[k][2])
         IN  IF k \notin fails
             THEN MixRow(SetLoc(mb, label, col, MixValue(name, MixPairs[k][1], MixPairs[k][2])),
                         label, name, fails, k + 1)
             ELSE IF MixCatches("MixtureError")
             THEN MixRow(SetLoc(mb, label, col, NaN), label, name, fails, k + 1)
             ELSE [mb |-> mb, exc |-> "MixtureError", done |-> k - 1]

\* the body of the row loop for loop variable row.  The result holds the
\* table, what happened (entry), the columns addressed and the exception
\* that left the outer try ("none" when it ended normally)
RowBody(mb, vp, row, chem, reads, fails) ==
    LET blank == [i |-> row, found |-> FALSE, name |-> None, constructed |-> FALSE,
                  events |-> <<>>, mixed |-> 0, fails |-> {}]
    IN
    IF ~HasCell(mb, row, "name")
    THEN [mb |-> mb, entry |-> blank, cols |-> {"name"}, exc |-> "KeyError"]
    ELSE
      LET name == mb.data["name"][row]
          e1 == [blank EXCEPT !.found = TRUE, !.name = name]
      IN
      IF chem = "raise"
      THEN [mb |-> mb, entry |-> e1, cols |-> {"name"}, exc |-> "ChemicalError"]
      ELSE
        LET p == ReadProps(mb, row, name, vp, reads, 1, <<>>)
            e2 == [e1 EXCEPT !.constructed = TRUE, !.events = p.events]
            pcols == {"name"} \cup {vp[k][1] : k \in 1..Len(p.events)}
        IN
        IF p.exc # "none"
        THEN [mb |-> p.mb, entry |-> e2, cols |-> pcols, exc |-> p.exc]
        ELSE
          LET m == MixRow(p.mb, row, name, fails, 1)
          IN  [mb |-> m.mb,
               entry |-> [e2 EXCEPT !.mixed = m.done, !.fails = fails],
               cols |-> pcols \cup MixColumnNames,
               exc |-> m.exc]

(***************************************************************************)
(* process_materials                                                       *)
(***************************************************************************)
RunName == "run1"

RECURSIVE ValidateFrom(_, _, _)
ValidateFrom(props, k, acc) ==
    IF k > Len(props) THEN acc
    ELSE ValidateFrom(props, k + 1,
            IF props[k] \in DOMAIN supported_properties
            THEN [acc EXCEPT !.valid = DictSet(@, props[k], supported_properties[props[k]])]
            ELSE [acc EXCEPT !.warned = Append(@, props[k])])

ValidatePropsMutKeepAll(props) ==
    [valid |-> [k \in DOMAIN props |-> <<props[k], props[k]>>], warned |-> <<>>]

\* the validation loop: the valid dict and the names warned about
ValidateProps(props) == ValidateFrom(props, 1, [valid |-> <<>>, warned |-> <<>>])

Validate ==
    /\ pc = "bank_ready"
    /\ LET v == ValidateProps(properties)
       IN  /\ valid_properties' = v.valid
           /\ warned' = v.warned
    /\ pc' = "columns"
    /\ UNCHANGED <<i, mix_k, material_bank, properties, accessed, visited, written>>
    /\ UNCHANGED fetchVars

\* one iteration of the loops that create the enthalpy-of-mixing columns
CreateColumn ==
    /\ pc = "columns"
    /\ mix_k < Len(MixPairs)
    /\ LET column_name == ColumnName(MixPairs[mix_k + 1][1], MixPairs[mix_k + 1][2])
       IN  /\ material_bank' = AssignColumn(material_bank, column_name, NaN)
           /\ accessed' = accessed \cup {column_name}
    /\ mix_k' = mix_k + 1
    /\ UNCHANGED <<pc, i, properties, valid_properties, warned, visited, written>>
    /\ UNCHANGED fetchVars

\* the column loops are exhausted: enter the row loop
EnterRowLoop ==
    /\ pc = "columns"
    /\ mix_k >= Len(MixPairs)
    /\ i' = 0
    /\ pc' = "row_loop"
    /\ UNCHANGED <<mix_k, material_bank, properties, valid_properties, warned,
                   accessed, visited, written>>
    /\ UNCHANGED fetchVars

\* one iteration of the loop over range(material_bank.shape[0])
ProcessRow ==
    /\ pc = "row_loop"
    /\ i < NRows(material_bank)
    /\ \E chem \in {"ok", "raise"},
          reads \in [1..Len(valid_properties) -> GetattrOutcomes],
          fails \in MixFailures :
         LET r == RowBody(material_bank, valid_properties, i, chem, reads, fails)
         IN  /\ material_bank' = r.mb
             /\ visited' = Append(visited, r.entry)
             /\ accessed' = accessed \cup r.cols
             /\ pc' = IF r.exc = "none" \/ OuterCatches(r.exc)
                      THEN "row_loop" ELSE "crashed"
    /\ i' = i + 1
    /\ UNCHANGED <<mix_k, properties, valid_properties, warned, written>>
    /\ UNCHANGED fetchVars

\* the loop is exhausted: material_bank.to_parquet(output_file, index=False)
Save ==
    /\ pc = "row_loop"
    /\ i >= NRows(material_bank)
    /\ written' = Append(written, [file |-> OutputFile(RunName),
                                   columns |-> material_bank.columns,
                                   rows_done |-> Len(visited)])
    /\ pc' = "done"
    /\ UNCHANGED <<i, mix_k, material_bank, properties, valid_properties, warned,
                   accessed, visited>>
    /\ UNCHANGED fetchVars

NextEnrich == Validate \/ CreateColumn \/ EnterRowLoop \/ ProcessRow \/ Save

\* the property lists a caller asks for ('heat capacity' is commented out of
\* the catalog)
PropertyRequests ==
    {<<"melting point", "density">>,
     <<"heat capacity", "density">>,
     <<"colour">>,
     <<"density", "heat capacity", "melting point", "density">>}

\* a table read from a file: default RangeIndex 0..n-1
RangeFrame(n) ==
    [index |-> [k \in 1..n |-> k - 1],
     index_name |-> None,
     columns |-> <<"smiles", "name", "formula">>,
     data |-> [c \in {"smiles", "name", "formula"} |->
                 [lab \in 0..(n - 1) |->
                    CASE c = "smiles" -> "C"
                      [] c = "name" -> "material-" \o ToString(lab)
                      [] c = "formula" -> Formula]]]

\* the table generate_material_bank returns when every identifier 1..n is found
BankFrame(n) ==
    FromDict([k \in 1..n |-> <<k, [smiles |-> "C", name |-> NameOf(k),
                                  formula |-> Formula]>>])

NoFetch ==
    /\ args = [start_cid |-> 1, end_cid |-> 0, batch_size |-> 1]
    /\ smiles_data = <<>>
    /\ fetch_log = <<>>

InitEnrich ==
    /\ pc = "bank_ready"
    /\ NoFetch
    /\ i = 0
    /\ mix_k = 0
    /\ material_bank \in {RangeFrame(n) : n \in 0..MaxRows}
                         \cup {BankFrame(n) : n \in 1..MaxRows}
    /\ properties \in PropertyRequests
    /\ valid_properties = <<>>
    /\ warned = <<>>
    /\ accessed = {}
    /\ visited = <<>>
    /\ written = <<>>

SpecEnrich == InitEnrich /\ [][NextEnrich]_vars

(***************************************************************************)
(* The pipeline: generate_material_bank, then process_materials on the     *)
(* table it returned.                                                      *)
(***************************************************************************)
PipelineArgs ==
    {[start_cid |-> s, end_cid |-> s + n - 1, batch_size |-> b] :
        s \in 0..1, n \in 1..MaxRows, b \in 1..MaxBatch}

InitPipeline ==
    /\ pc = "fetch_loop"
    /\ args \in PipelineArgs
    /\ i = 0
    /\ mix_k = 0
    /\ smiles_data = <<>>
    /\ fetch_log = <<>>
    /\ material_bank = EmptyFrame
    /\ properties \in PropertyRequests
    /\ valid_properties = <<>>
    /\ warned = <<>>
    /\ accessed = {}
    /\ visited = <<>>
    /\ written = <<>>

NextPipeline == NextFetch \/ NextEnrich

SpecPipeline == InitPipeline /\ [][NextPipeline]_vars

(***************************************************************************)
(* Properties of the batch fetcher, checked under SpecFetch.               *)
(***************************************************************************)
RangeSize == args.end_cid - args.start_cid + 1

CeilDiv(a, b) == (a + b - 1) \div b

\* the chunks that requested identifier id; a chunk that is a contiguous
\* ascending run holds exactly the identifiers from its first to its last
ChunksHolding(id) ==
    {k \in DOMAIN fetch_log :
        /\ fetch_log[k].batch[1] <= id
        /\ id <= fetch_log[k].batch[Len(fetch_log[k].batch)]}

\* C1: for start_cid <= end_cid and batch_size >= 1 the chunks are issued in
\* ascending order, each a contiguous run of 1..batch_size identifiers that
\* starts right after the previous chunk; when the loop has ended there are
\* ceil(range size / batch_size) chunks and every identifier of the range was
\* requested exactly once.
C1_ChunksPartitionRange ==
    (args.start_cid <= args.end_cid /\ args.batch_size >= 1) =>
        /\ \A k \in DOMAIN fetch_log :
             LET c == fetch_log[k].batch
             IN  /\ Len(c) >= 1 /\ Len(c) <= args.batch_size
                 /\ \A j \in 1..(Len(c) - 1) : c[j + 1] = c[j] + 1
                 /\ c[1] = IF k = 1 THEN args.start_cid
                           ELSE fetch_log[k - 1].batch[Len(fetch_log[k - 1].batch)] + 1
                 /\ c[Len(c)] <= args.end_cid
        /\ pc = "bank_ready" =>
             /\ Len(fetch_log) = CeilDiv(RangeSize, args.batch_size)
             /\ \A id \in args.start_cid..args.end_cid :
                    Cardinality(ChunksHolding(id)) = 1

\* a finished run of several chunks whose last chunk is shorter than batch_size
C1_Witness ==
    /\ pc = "bank_ready"
    /\ Len(fetch_log) >= 2
    /\ Len(fetch_log[Len(fetch_log)].batch) < args.batch_size

ChunkSizes == [k \in DOMAIN fetch_log |-> Len(fetch_log[k].batch)]

\* C7 as claimed: the run over identifiers 1..250 with batch_size 100 issues
\* exactly three chunks, of sizes 100, 100 and 51 in that order.
C7_ExampleChunkSizes_Claimed ==
    (args = ExampleArgs /\ pc = "bank_ready") => ChunkSizes = <<100, 100, 51>>

\* C7 amended: the run over identifiers 1..250 with batch_size 100 issues
\* exactly three chunks, of sizes 100, 100 and 50 in that order.
C7_ExampleChunkSizes ==
    (args = ExampleArgs /\ pc = "bank_ready") => ChunkSizes = <<100, 100, 50>>

C7_Witness == args = ExampleArgs /\ pc = "bank_ready"

\* the chunk of the step just taken had a non-success status
FailedChunkStep ==
    /\ Len(fetch_log') = Len(fetch_log) + 1
    /\ fetch_log'[Len(fetch_log')].status_code # 200

\* C2: a chunk answered with a non-success status contributes no record, is
\* requested once only, leaves the accumulated records as they were and lets
\* the loop go on: a finished run has requested every chunk.
C2_FailedChunkIsolated ==
    /\ [](/\ \A k \in DOMAIN fetch_log :
               fetch_log[k].status_code # 200 => fetch_log[k].batch_data = <<>>
          /\ \A k1, k2 \in DOMAIN fetch_log :
               k1 # k2 => fetch_log[k1].batch # fetch_log[k2].batch
          /\ pc = "bank_ready" =>
               Len(fetch_log) = CeilDiv(RangeSize, args.batch_size))
    /\ [][FailedChunkStep =>
            /\ smiles_data' = smiles_data
            /\ pc' = "fetch_loop"
            /\ i' = i + args.batch_size]_vars

\* a finished run in which a failed chunk lies between two chunks that
\* contributed records, all of which are in the result
C2_Witness ==
    /\ pc = "bank_ready"
    /\ \E k1, k2, k3 \in DOMAIN fetch_log :
         /\ k1 < k2 /\ k2 < k3
         /\ fetch_log[k2].status_code # 200
         /\ fetch_log[k1].batch_data # <<>>
         /\ fetch_log[k3].batch_data # <<>>
         /\ Keys(fetch_log[k1].batch_data) \cup Keys(fetch_log[k3].batch_data)
               \subseteq Labels(material_bank)

\* C3 as claimed: a status-200 chunk whose parsing raised contributes no
\* record at all.
C3_RaisedChunkEmpty ==
    \A k \in DOMAIN fetch_log :
        fetch_log[k].raised => fetch_log[k].batch_data = <<>>

\* C5: no record of a chunk's batch_data, of smiles_data or of the returned
\* table has a missing or empty structure string.
C5_NoEmptySmiles ==
    /\ \A k \in DOMAIN fetch_log : \A j \in DOMAIN fetch_log[k].batch_data :
          fetch_log[k].batch_data[j][2].smiles \notin {None, ""}
    /\ \A j \in DOMAIN smiles_data : smiles_data[j][2].smiles \notin {None, ""}
    /\ pc = "bank_ready" =>
          \A lab \in Labels(material_bank) :
              material_bank.data["smiles"][lab] \notin {None, ""}

\* a finished run with a parsed status-200 response that held an item without
\* a structure string next to an item that was accepted
C5_Witness ==
    /\ pc = "bank_ready"
    /\ \E k \in DOMAIN fetch_log :
         /\ fetch_log[k].status_code = 200
         /\ fetch_log[k].falsy_smiles
         /\ ~fetch_log[k].raised
         /\ fetch_log[k].batch_data # <<>>

(***************************************************************************)
(* Properties of the property enricher, checked under SpecEnrich.          *)
(***************************************************************************)
Requested == {properties[k] : k \in DOMAIN properties}

Cell(mb, label, col) == mb.data[col][label]

\* C4 as claimed: after the run, a row whose Chemical(...) raised holds NaN
\* in every validated requested property column and in every mixing column,
\* and every row after it was still processed.
C4_FailedRowAllMissing ==
    pc = "done" =>
        \A k \in DOMAIN visited :
            (visited[k].found /\ ~visited[k].constructed) =>
                /\ \A p \in Keys(valid_properties) :
                      /\ HasCell(material_bank, visited[k].i, p)
                      /\ Cell(material_bank, visited[k].i, p) = NaN
                /\ \A c \in MixColumnNames :
                      /\ HasCell(material_bank, visited[k].i, c)
                      /\ Cell(material_bank, visited[k].i, c) = NaN
                /\ Len(visited) = NRows(material_bank)

\* C6: once validation is over, a requested name outside supported_properties
\* is warned about, is no key of valid_properties, is no column of the table
\* (nor of the written file) and was never addressed; the run does not stop;
\* a supported name of the same request is a key of valid_properties with its
\* catalog attribute, and each of its reads that returned a value is stored
\* in its cell.
C6_UnsupportedExcluded ==
    pc # "bank_ready" =>
        /\ pc # "crashed"
        /\ \A p \in Requested \ DOMAIN supported_properties :
              /\ p \notin Keys(valid_properties)
              /\ p \notin Columns(material_bank)
              /\ p \notin accessed
              /\ \E k \in DOMAIN warned : warned[k] = p
              /\ \A w \in DOMAIN written :
                    \A c \in DOMAIN written[w].columns : written[w].columns[c] # p
        /\ \A p \in Requested \cap DOMAIN supported_properties :
              /\ p \in Keys(valid_properties)
              /\ valid_properties[DictGet(valid_properties, p)][2] = supported_properties[p]
        /\ \A k \in DOMAIN visited : \A j \in DOMAIN visited[k].events :
              visited[k].events[j] = "value" =>
                  /\ HasCell(material_bank, visited[k].i, valid_properties[j][1])
                  /\ Cell(material_bank, visited[k].i, valid_properties[j][1])
                        = AttrValue(visited[k].name,
                                    supported_properties[valid_properties[j][1]])

\* a finished run whose request named 'heat capacity' (unsupported) and
\* 'density', with a row whose density was read and written to the file
C6_Witness ==
    /\ pc = "done"
    /\ "heat capacity" \in Requested
    /\ \E k \in DOMAIN visited :
          /\ visited[k].constructed
          /\ \E j \in DOMAIN visited[k].events :
                visited[k].events[j] = "value" /\ valid_properties[j][1] = "density"
    /\ \E c \in DOMAIN written[1].columns : written[1].columns[c] = "density"

\* C8 as claimed: in a row whose chemistry object was constructed, every
\* validated property is read; a read that failed in any way leaves NaN in
\* its cell, a read that returned leaves the value, and all the mixing
\* columns of the row are computed.
C8_ReadFailureIsolated ==
    \A k \in DOMAIN visited :
        visited[k].constructed =>
            /\ Len(visited[k].events) = Len(valid_properties)
            /\ \A j \in DOMAIN visited[k].events :
                  /\ HasCell(material_bank, visited[k].i, valid_properties[j][1])
                  /\ Cell(material_bank, visited[k].i, valid_properties[j][1])
                        = IF visited[k].events[j] = "value"
                          THEN AttrValue(visited[k].name, valid_properties[j][2])
                          ELSE NaN
            /\ visited[k].mixed = Len(MixPairs)

\* a sequential program always takes its next step
FairSpecEnrich == SpecEnrich /\ WF_vars(NextEnrich)

WriteOnceAtEnd ==
    /\ Len(written) <= 1
    /\ pc # "crashed"
    /\ written # <<>> =>
          /\ pc = "done"
          /\ written[1].file = RunName \o ".parquet"
          /\ written[1].rows_done = NRows(material_bank)
          /\ Len(visited) = NRows(material_bank)
          /\ \A k \in DOMAIN visited : visited[k].i = k - 1
    /\ pc = "done" => Len(written) = 1

\* C10: the table is written at most once, to '<run_name>.parquet', and only
\* when every row has been processed; whatever fails in the rows, the run
\* reaches the write.
C10_SingleFinalWrite == []WriteOnceAtEnd /\ <>(pc = "done")

\* a finished run in which one row failed to construct, and another row had
\* a property read and a mixture fail
C10_Witness ==
    /\ pc = "done"
    /\ Len(written) = 1
    /\ \E k1, k2 \in DOMAIN visited :
          /\ visited[k1].found /\ ~visited[k1].constructed
          /\ visited[k2].constructed
          /\ \E j \in DOMAIN visited[k2].events : visited[k2].events[j] # "value"
          /\ visited[k2].fails # {}

(***************************************************************************)
(* Property of the pipeline, checked under SpecPipeline.                   *)
(***************************************************************************)
\* C9 as claimed: when process_materials has run on the table that
\* generate_material_bank returned, the row loop has visited the rows of the
\* table one by one in table order, each visit finding its row and taking
\* the name of that row.
C9_EveryRowVisited ==
    pc = "done" =>
        /\ Len(visited) = NRows(material_bank)
        /\ \A k \in DOMAIN visited :
              /\ visited[k].found
              /\ visited[k].i = material_bank.index[k]
              /\ visited[k].name = Cell(material_bank, material_bank.index[k], "name")

====
